---- MODULE Spec2Model ----
(***************************************************************************)
(* A model of the expression pipeline of ast-latex:                        *)
(*   build(e) = replace(" ", "") -> postfix(e) -> tokenize(e)              *)
(*              -> astree.add(p.pop()) ... -> astree                       *)
(* followed by the queries a consumer makes on the tree (evaluate, copy,   *)
(* postorder).                                                             *)
(*                                                                         *)
(* A string is a sequence of one-character strings; a lexeme (token.sym,   *)
(* node.sym) is such a sequence too.  Indices into Python strings and      *)
(* lists keep their 0-based values; the element at Python index i of a     *)
(* sequence s is s[i + 1].                                                 *)
(***************************************************************************)
EXTENDS Integers, Sequences, FiniteSets, TLC

VARIABLES
    e,       \* the expression string the pipeline works on
    pc,      \* the stage the program is in
    fault,   \* the exception that ended the run, "none" while there is none
    index,   \* tokenize: scan position
    eindex,  \* tokenize: index into ends
    result,  \* tokenize: the token list
    pindex,  \* postfix: index into tokens
    q,       \* postfix: output list
    op,      \* postfix: operator stack
    p,       \* build: the postfix list it pops from
    heap,    \* the node objects allocated so far, addressed 1..Len(heap)
    root,    \* astree.root
    cur,     \* astree.cur
    croot,   \* root of the astree returned by copy(), None before the call
    copied,  \* whether copy() has been called
    value    \* <<v>> once evaluate has returned v, <<>> before

vars == <<e, pc, fault, index, eindex, result, pindex, q, op, p,
          heap, root, cur, croot, copied, value>>

----------------------------------------------------------------------------
(* Bounds of the model.                                                    *)

\* chunks per input of the general pipeline specification
MaxChunks == 4
\* chunks per input of the tokenizer specification
MaxTokChunks == 4
\* characters per input of the operator specification
MaxOpsLen == 5
\* add() calls per run of the add specification
MaxAdds == 4

----------------------------------------------------------------------------
(* Generic helpers.                                                        *)

None == 0

RECURSIVE Flatten(_)
Flatten(ss) == IF ss = <<>> THEN <<>> ELSE Head(ss) \o Flatten(Tail(ss))

SeqsUpTo(S, n) == UNION {[1..k -> S] : k \in 0..n}

Reverse(s) == [i \in 1..Len(s) |-> s[Len(s) + 1 - i]]

\* Python's s[a:b] for 0 <= a, 0 <= b: empty when b <= a
Slice(s, a, b) ==
    LET hi == IF b > Len(s) THEN Len(s) ELSE b
    IN  IF hi <= a THEN <<>> ELSE SubSeq(s, a + 1, hi)

----------------------------------------------------------------------------
(* expr.py: tables and character classes.                                  *)

RIGHT == 0
LEFT == 1

OPS(s) ==
    CASE s = <<"^">> -> [precedence |-> 4, associativity |-> RIGHT]
      [] s = <<"*">> -> [precedence |-> 3, associativity |-> LEFT]
      [] s = <<"/">> -> [precedence |-> 3, associativity |-> LEFT]
      [] s = <<"+">> -> [precedence |-> 2, associativity |-> LEFT]
      [] s = <<"-">> -> [precedence |-> 2, associativity |-> LEFT]

\* the keys of basic_opeartors_mapper
basic_opeartors_mapper == {<<"+">>, <<"-">>, <<"*">>, <<"/">>, <<"^">>}

\* the keys of function_mapper, in insertion order
function_mapper == << <<"m", "a", "x">>, <<"m", "i", "n">>, <<"s", "i", "n">> >>

token(sym, flag) ==
    [sym      |-> sym,
     is_num   |-> flag = "is_num",
     is_func  |-> flag = "is_func",
     is_dummy |-> flag = "is_dummy",
     is_oper  |-> flag = "is_oper",
     is_leftb |-> flag = "is_leftb",
     is_rightb |-> flag = "is_rightb"]

\* has_precedence with >= where line 75 has >: ^ pops ^
has_precedence_ge(a, b) ==
    \/ OPS(b).associativity = RIGHT /\ OPS(a).precedence >= OPS(b).precedence
    \/ OPS(b).associativity = LEFT /\ OPS(a).precedence >= OPS(b).precedence

has_precedence(a, b) ==
    \/ OPS(b).associativity = RIGHT /\ OPS(a).precedence > OPS(b).precedence
    \/ OPS(b).associativity = LEFT /\ OPS(a).precedence >= OPS(b).precedence

is_symbol(s) == s \in basic_opeartors_mapper

\* the body is `pass`: the call returns None, which is false in a condition
is_func(s) == FALSE

is_digit(c) == c \in {"1", "2", "3", "4", "5", "6", "7", "8", "9", "0"}

is_letter(c) ==
    c \in {"a", "b", "c", "d", "e", "f", "g", "h", "i", "j", "k", "l", "m",
           "n", "o", "p", "q", "r", "s", "t", "u", "v", "w", "x", "y", "z",
           "A", "B", "C", "D", "E", "F", "G", "H", "I", "J", "K", "L", "M",
           "N", "O", "P", "Q", "R", "S", "T", "U", "V", "W", "X", "Y", "Z"}

\* the alternation (max|min|sin): none of the keys holds a "(" to escape
func_regex == function_mapper

\* the length of the first alternative of r that matches s at pos, 0 for none
MatchAt(r, s, pos) ==
    LET hits == {k \in 1..Len(r) : Slice(s, pos, pos + Len(r[k])) = r[k]}
    IN  IF hits = {} THEN 0
        ELSE Len(r[CHOOSE k \in hits : \A j \in hits : k <= j])

\* re.finditer: the non-overlapping matches, leftmost first
RECURSIVE FindIter(_, _, _)
FindIter(r, s, pos) ==
    IF pos >= Len(s) THEN <<>>
    ELSE LET m == MatchAt(r, s, pos)
         IN  IF m = 0 THEN FindIter(r, s, pos + 1)
             ELSE <<[start |-> pos, end |-> pos + m]>> \o FindIter(r, s, pos + m)

match_regex(r, s) ==
    LET ms == FindIter(r, s, 0)
    IN  [starts |-> [i \in 1..Len(ms) |-> ms[i].start],
         ends   |-> [i \in 1..Len(ms) |-> ms[i].end]]

starts == match_regex(func_regex, e).starts
ends == match_regex(func_regex, e).ends

\* lines 157-159: the index the loop over digits stops at
RECURSIVE DigitRunEnd(_, _)
DigitRunEnd(s, i) ==
    IF i < Len(s) /\ is_digit(s[i + 1]) THEN DigitRunEnd(s, i + 1) ELSE i

\* lines 164-166: the index the loop over letters stops at
RECURSIVE LetterRunEnd(_, _)
LetterRunEnd(s, i) ==
    IF i < Len(s) /\ is_letter(s[i + 1]) THEN LetterRunEnd(s, i + 1) ELSE i

----------------------------------------------------------------------------
(* Raising an exception: nothing catches it, the run ends.                 *)

tokVars == <<index, eindex, result>>
postVars == <<pindex, q, op>>
treeVars == <<p, heap, root, cur, croot, copied, value>>

Raise(kind) ==
    /\ pc' = "fault"
    /\ fault' = kind
    /\ UNCHANGED <<e, tokVars, postVars, treeVars>>

----------------------------------------------------------------------------
(* expr.tokenize: one iteration of `while index < len(e)` per step.        *)

InStarts(i) == \E k \in 1..Len(starts) : starts[k] = i

\* FuncBranch with eindex advanced before ends is read
FuncBranch_readnext ==
    IF eindex + 1 >= Len(ends)
    THEN [raises |-> TRUE, result |-> result, index |-> index, eindex |-> eindex]
    ELSE [raises |-> FALSE,
          result |-> Append(result, token(Slice(e, index, ends[eindex + 2]), "is_func")),
          index  |-> ends[eindex + 2],
          eindex |-> eindex + 1]

\* lines 150-152: the effect of the branch `if index in starts`, or the
\* IndexError of ends[eindex]
FuncBranch ==
    IF eindex >= Len(ends)
    THEN [raises |-> TRUE, result |-> result, index |-> index, eindex |-> eindex]
    ELSE [raises |-> FALSE,
          result |-> Append(result, token(Slice(e, index, ends[eindex + 1]), "is_func")),
          index  |-> ends[eindex + 1],
          eindex |-> eindex + 1]

\* lines 154-175: the token appended for the character at index, if any, and
\* the index the next iteration starts at
CharBranch ==
    LET t == e[index + 1]
    IN  IF is_digit(t)
        THEN LET j == DigitRunEnd(e, index)
             IN  [result |-> Append(result, token(Slice(e, index, j), "is_num")),
                  index  |-> (j - 1) + 1]
        ELSE IF is_letter(t)
        THEN LET j == LetterRunEnd(e, index)
             IN  [result |-> Append(result, token(Slice(e, index, j), "is_dummy")),
                  index  |-> (j - 1) + 1]
        ELSE IF t = "("
        THEN [result |-> Append(result, token(<<t>>, "is_leftb")), index |-> index + 1]
        ELSE IF t = ")"
        THEN [result |-> Append(result, token(<<t>>, "is_rightb")), index |-> index + 1]
        ELSE IF is_symbol(<<t>>)
        THEN [result |-> Append(result, token(<<t>>, "is_oper")), index |-> index + 1]
        ELSE [result |-> result, index |-> index + 1]

TokenizeStep ==
    /\ pc = "tokenize"
    /\ index < Len(e)
    /\ IF InStarts(index)
       THEN LET b == FuncBranch
            IN  IF b.raises
                THEN Raise("IndexError")
                ELSE /\ result' = b.result
                     /\ index' = b.index
                     /\ eindex' = b.eindex
                     /\ UNCHANGED <<e, pc, fault, postVars, treeVars>>
       ELSE LET b == CharBranch
            IN  /\ result' = b.result
                /\ index' = b.index
                /\ UNCHANGED <<e, pc, fault, eindex, postVars, treeVars>>

\* the loop ends and tokenize returns result to its caller
TokenizeReturn ==
    /\ pc = "tokenize"
    /\ index >= Len(e)
    /\ pc' = "postfix"
    /\ UNCHANGED <<e, fault, tokVars, postVars, treeVars>>

----------------------------------------------------------------------------
(* expr.postfix: one iteration of `while index < len(tokens)` per step.    *)

\* lines 96-97: pop to the output while the top is an operator that has
\* precedence over b
RECURSIVE PopOps(_, _, _)
PopOps(qq, oo, b) ==
    IF Len(oo) > 0 /\ oo[Len(oo)] # <<"(">> /\ has_precedence(oo[Len(oo)], b)
    THEN PopOps(Append(qq, oo[Len(oo)]), SubSeq(oo, 1, Len(oo) - 1), b)
    ELSE [q |-> qq, op |-> oo]

\* lines 102-103: pop to the output until the top is "("
RECURSIVE PopToParen(_, _)
PopToParen(qq, oo) ==
    IF Len(oo) > 0 /\ oo[Len(oo)] # <<"(">>
    THEN PopToParen(Append(qq, oo[Len(oo)]), SubSeq(oo, 1, Len(oo) - 1))
    ELSE [q |-> qq, op |-> oo]

\* lines 90-91: the tokens that go to the output as they are read
IsOutputToken(tk) == tk.is_num \/ tk.is_dummy

\* lines 89-104: the output list and the operator stack after the token at
\* pindex, or the IndexError of op.pop() on an empty stack
PostfixIter ==
    LET tk == result[pindex + 1]
        q1 == IF IsOutputToken(tk) THEN Append(q, tk.sym) ELSE q
    IN  IF tk.is_leftb
        THEN [raises |-> FALSE, q |-> q1, op |-> Append(op, tk.sym)]
        ELSE IF tk.is_oper
        THEN LET r == PopOps(q1, op, tk.sym)
             IN  [raises |-> FALSE, q |-> r.q, op |-> Append(r.op, tk.sym)]
        ELSE IF tk.is_rightb
        THEN LET r == PopToParen(q1, op)
             IN  IF Len(r.op) = 0
                 THEN [raises |-> TRUE, q |-> r.q, op |-> r.op]
                 ELSE [raises |-> FALSE, q |-> r.q,
                       op |-> SubSeq(r.op, 1, Len(r.op) - 1)]
        ELSE [raises |-> FALSE, q |-> q1, op |-> op]

PostfixStep ==
    /\ pc = "postfix"
    /\ pindex < Len(result)
    /\ LET r == PostfixIter
       IN  IF r.raises
           THEN Raise("IndexError")
           ELSE /\ q' = r.q
                /\ op' = r.op
                /\ pindex' = pindex + 1
                /\ UNCHANGED <<e, pc, fault, tokVars, treeVars>>

\* lines 106-108: the rest of the stack goes to the output, top first, and
\* postfix returns q; build line 186 binds it to p
PostfixReturn ==
    /\ pc = "postfix"
    /\ pindex >= Len(result)
    /\ q' = q \o Reverse(op)
    /\ op' = <<>>
    /\ p' = q'
    /\ pc' = "add"
    /\ UNCHANGED <<e, fault, tokVars, pindex, heap, root, cur, croot, copied, value>>

----------------------------------------------------------------------------
(* ast.py: the tree.                                                       *)

node(sym, parent, left, right) ==
    [sym |-> sym, parent |-> parent, left |-> left, right |-> right]

\* add with the new node's parent set to the root where lines 51 and 63
\* pass self.cur
add_parentroot(h, r, c, sym) ==
    LET new == Len(h) + 1
        link == is_symbol(sym) \/ is_func(sym)
    IN  IF r = None
        THEN [raises |-> "none", heap |-> Append(h, node(sym, None, None, None)),
              root |-> new, cur |-> new]
        ELSE IF h[c].right = None
        THEN [raises |-> "none",
              heap |-> Append([h EXCEPT ![c].right = new], node(sym, r, None, None)),
              root |-> r,
              cur |-> IF link THEN new ELSE c]
        ELSE [raises |-> "AttributeError", heap |-> h, root |-> r, cur |-> c]

\* astree.add on the tree (h, r, c): the tree after it, or the exception.
\* expr defines no is_unary, so every evaluation of expr.is_unary(...) raises
\* AttributeError: that is line 53 or 64 when cur.left is None, and the loop
\* of line 57 or 67 otherwise, which climbs while cur.left is not None and
\* then either evaluates expr.is_unary or reads None.left.
add(h, r, c, sym) ==
    LET new == Len(h) + 1
        link == is_symbol(sym) \/ is_func(sym)
    IN  IF r = None
        THEN [raises |-> "none", heap |-> Append(h, node(sym, None, None, None)),
              root |-> new, cur |-> new]
        ELSE IF h[c].right = None
        THEN [raises |-> "none",
              heap |-> Append([h EXCEPT ![c].right = new], node(sym, c, None, None)),
              root |-> r,
              cur |-> IF link THEN new ELSE c]
        ELSE [raises |-> "AttributeError", heap |-> h, root |-> r, cur |-> c]

\* build lines 188-189: ast.add(p.pop())
BuildAdd ==
    /\ pc = "add"
    /\ Len(p) > 0
    /\ LET r == add(heap, root, cur, p[Len(p)])
       IN  IF r.raises # "none"
           THEN Raise(r.raises)
           ELSE /\ p' = SubSeq(p, 1, Len(p) - 1)
                /\ heap' = r.heap
                /\ root' = r.root
                /\ cur' = r.cur
                /\ UNCHANGED <<e, pc, fault, tokVars, postVars, croot, copied, value>>

BuildReturn ==
    /\ pc = "add"
    /\ Len(p) = 0
    /\ pc' = "built"
    /\ UNCHANGED <<e, fault, tokVars, postVars, treeVars>>

\* build line 185
replace_spaces(s) == SelectSeq(s, LAMBDA c : c # " ")

BuildEnter ==
    /\ pc = "build"
    /\ e' = replace_spaces(e)
    /\ pc' = "tokenize"
    /\ UNCHANGED <<fault, tokVars, postVars, treeVars>>

\* evaluate(node): 0 for None; for a node the first test, expr.is_unary,
\* raises AttributeError since expr defines no is_unary
evaluate(h, n) ==
    IF n = None
    THEN [raises |-> "none", value |-> 0]
    ELSE [raises |-> "AttributeError", value |-> 0]

Evaluate ==
    /\ pc = "built"
    /\ value = <<>>
    /\ LET r == evaluate(heap, root)
       IN  IF r.raises # "none"
           THEN Raise(r.raises)
           ELSE /\ value' = <<r.value>>
                /\ UNCHANGED <<e, pc, fault, tokVars, postVars, p, heap, root,
                               cur, croot, copied>>

\* postorder with the node's symbol appended before its subtrees are
\* travelled
RECURSIVE postorder_rootfirst(_, _)
postorder_rootfirst(h, n) ==
    IF n = None THEN <<>>
    ELSE <<h[n].sym>> \o postorder_rootfirst(h, h[n].left)
                     \o postorder_rootfirst(h, h[n].right)

\* the symbols of the tree at n in post-order
RECURSIVE postorder(_, _)
postorder(h, n) ==
    IF n = None THEN <<>>
    ELSE postorder(h, h[n].left) \o postorder(h, h[n].right) \o <<h[n].sym>>

\* _clone(n): the heap with the clones allocated, and the clone of n
RECURSIVE clone(_, _)
clone(h, n) ==
    IF n = None THEN [heap |-> h, id |-> None]
    ELSE LET h1 == Append(h, node(h[n].sym, h[n].parent, h[n].left, h[n].right))
             id == Len(h1)
             l  == clone(h1, h[n].left)
             h2 == [l.heap EXCEPT ![id].left = l.id]
             r  == clone(h2, h[n].right)
         IN  [heap |-> [r.heap EXCEPT ![id].right = r.id], id |-> id]

\* astree.copy
Copy ==
    /\ pc = "built"
    /\ ~copied
    /\ LET r == clone(heap, root)
       IN  /\ heap' = r.heap
           /\ croot' = r.id
    /\ copied' = TRUE
    /\ UNCHANGED <<e, pc, fault, tokVars, postVars, p, root, cur, value>>

----------------------------------------------------------------------------
(* Initial states: the locals of every stage as that stage initialises     *)
(* them, and an input drawn from a bounded family.                         *)

Locals ==
    /\ fault = "none"
    /\ index = 0 /\ eindex = 0 /\ result = <<>>
    /\ pindex = 0 /\ q = <<>> /\ op = <<>>
    /\ p = <<>> /\ heap = <<>> /\ root = None /\ cur = None
    /\ croot = None /\ copied = FALSE /\ value = <<>>

Chunks ==
    {<<"1">>, <<"2">>, <<"+">>, <<"^">>, <<"(">>, <<")">>,
     <<"m", "a", "x">>, <<" ">>}

Inputs == {Flatten(cs) : cs \in SeqsUpTo(Chunks, MaxChunks)}

\* build(e) called on any string, then the consumer's queries
Init ==
    /\ e \in Inputs
    /\ pc = "build"
    /\ Locals

Next ==
    \/ BuildEnter
    \/ TokenizeStep
    \/ TokenizeReturn
    \/ PostfixStep
    \/ PostfixReturn
    \/ BuildAdd
    \/ BuildReturn
    \/ Evaluate
    \/ Copy

Spec == Init /\ [][Next]_vars

----------------------------------------------------------------------------
(* tokenize(e) called on strings of letters, function names and others.    *)

TokChunks ==
    {<<"a">>, <<"m", "a", "x">>, <<"m", "i", "n">>, <<"s", "i", "n">>,
     <<"1">>, <<"+">>, <<",">>}

TokInputs == {Flatten(cs) : cs \in SeqsUpTo(TokChunks, MaxTokChunks)}

\* tokenize(e) called on any string
InitTok ==
    /\ e \in TokInputs
    /\ pc = "tokenize"
    /\ Locals

NextTok == TokenizeStep \/ TokenizeReturn

SpecTok == InitTok /\ [][NextTok]_vars

----------------------------------------------------------------------------
(* postfix(e) called on strings of digits and operators.                   *)

OpsChars == {"1", "(", "+", "-", "*", "/", "^"}

OpsInputs == SeqsUpTo(OpsChars, MaxOpsLen)

InitOps ==
    /\ e \in OpsInputs
    /\ pc = "tokenize"
    /\ Locals

NextOps ==
    \/ TokenizeStep
    \/ TokenizeReturn
    \/ PostfixStep
    \/ PostfixReturn

SpecOps == InitOps /\ [][NextOps]_vars

----------------------------------------------------------------------------
(* astree() and then any sequence of add calls, and copy.                  *)

AddSyms == {<<"1">>, <<"a">>, <<"+">>, <<"*">>, <<"m", "a", "x">>}

AddCall(sym) ==
    /\ pc = "built"
    /\ ~copied
    /\ Len(heap) < MaxAdds
    /\ LET r == add(heap, root, cur, sym)
       IN  IF r.raises # "none"
           THEN Raise(r.raises)
           ELSE /\ heap' = r.heap
                /\ root' = r.root
                /\ cur' = r.cur
                /\ UNCHANGED <<e, pc, fault, tokVars, postVars, p, croot, copied, value>>

InitAdd ==
    /\ e = <<>>
    /\ pc = "built"
    /\ Locals

NextAdd ==
    \/ \E sym \in AddSyms : AddCall(sym)
    \/ Copy

SpecAdd == InitAdd /\ [][NextAdd]_vars

----------------------------------------------------------------------------
(* A reference parser, independent of the tables and of the algorithms     *)
(* above: precedence climbing over the characters of s, with its own       *)
(* table.  A tree is written as the sequence [ left sym right ], with _    *)
(* for an absent child.                                                    *)

RefOps == {"+", "-", "*", "/", "^"}

RefPrec(c) == IF c = "^" THEN 3 ELSE IF c \in {"*", "/"} THEN 2 ELSE 1

RefRightAssoc(c) == c = "^"

RefFail == [ok |-> FALSE, tree |-> <<>>, pos |-> 0]

RefNode(l, sym, r) == << <<"[">> >> \o l \o <<sym>> \o r \o << <<"]">> >>

RefNil == << <<"_">> >>

RECURSIVE RefExpr(_, _, _), RefAtom(_, _), RefLoop(_, _, _, _)
RefAtom(s, i) ==
    IF i >= Len(s) THEN RefFail
    ELSE IF is_digit(s[i + 1])
    THEN LET j == DigitRunEnd(s, i)
         IN  [ok |-> TRUE, tree |-> RefNode(RefNil, Slice(s, i, j), RefNil), pos |-> j]
    ELSE IF s[i + 1] = "("
    THEN LET r == RefExpr(s, i + 1, 0)
         IN  IF r.ok /\ r.pos < Len(s) /\ s[r.pos + 1] = ")"
             THEN [r EXCEPT !.pos = r.pos + 1]
             ELSE RefFail
    ELSE RefFail

RefLoop(s, lhs, pos, minp) ==
    IF pos < Len(s) /\ s[pos + 1] \in RefOps /\ RefPrec(s[pos + 1]) >= minp
    THEN LET c == s[pos + 1]
             r == RefExpr(s, pos + 1,
                          IF RefRightAssoc(c) THEN RefPrec(c) ELSE RefPrec(c) + 1)
         IN  IF r.ok THEN RefLoop(s, RefNode(lhs, <<c>>, r.tree), r.pos, minp)
             ELSE RefFail
    ELSE [ok |-> TRUE, tree |-> lhs, pos |-> pos]

RefExpr(s, i, minp) ==
    LET a == RefAtom(s, i)
    IN  IF a.ok THEN RefLoop(s, a.tree, a.pos, minp) ELSE RefFail

WellFormed(s) == LET r == RefExpr(s, 0, 0) IN r.ok /\ r.pos = Len(s)

RefTree(s) == RefExpr(s, 0, 0).tree

\* the tree at n, written the same way
RECURSIVE TreeEnc(_, _)
TreeEnc(h, n) ==
    IF n = None THEN RefNil
    ELSE RefNode(TreeEnc(h, h[n].left), h[n].sym, TreeEnc(h, h[n].right))

\* the nodes of the tree at n
RECURSIVE TreeNodes(_, _)
TreeNodes(h, n) ==
    IF n = None THEN {}
    ELSE {n} \cup TreeNodes(h, h[n].left) \cup TreeNodes(h, h[n].right)

\* the nodes reachable from the nodes of S through left, right and parent
RECURSIVE Reach(_, _)
Reach(h, S) ==
    LET T == S \cup (({h[n].left : n \in S} \cup {h[n].right : n \in S}
                      \cup {h[n].parent : n \in S}) \ {None})
    IN  IF T = S THEN S ELSE Reach(h, T)

\* the parentheses of s match: no ")" without an earlier open "(", and every
\* "(" closed
RECURSIVE Depth(_, _, _)
Depth(s, i, d) ==
    IF i > Len(s) THEN d
    ELSE IF s[i] = "(" THEN Depth(s, i + 1, d + 1)
    ELSE IF s[i] = ")" THEN (IF d = 0 THEN -1 ELSE Depth(s, i + 1, d - 1))
    ELSE Depth(s, i + 1, d)

Balanced(s) == Depth(s, 1, 0) = 0

Count(seq, x) == Cardinality({i \in 1..Len(seq) : seq[i] = x})

IsNumberLiteral(sym) == sym # <<>> /\ \A i \in 1..Len(sym) : is_digit(sym[i])

IsIdentifier(sym) == sym # <<>> /\ \A i \in 1..Len(sym) : is_letter(sym[i])

----------------------------------------------------------------------------
(* The claims.                                                             *)

\* C1: for every well-formed expression of integer literals, + - * / ^ and
\* balanced parentheses, build and evaluate end without a fault and the tree
\* built has the shape of the reference parse tree (so that it evaluates to
\* the reference value).
C1_BuildMatchesReference ==
    WellFormed(e) =>
        /\ pc # "fault"
        /\ pc = "built" => TreeEnc(heap, root) = RefTree(e)

\* C2: for every expression whose parentheses are unbalanced, postfix never
\* returns a list and build never returns a tree.
C2_UnbalancedFaults ==
    ~Balanced(e) => pc \notin {"add", "built"}

\* C3: after copy() the clone is structurally equal to the tree and no node
\* reachable from the clone through left, right or parent is a node of the
\* tree.
C3_CopyIndependent ==
    copied =>
        /\ TreeEnc(heap, croot) = TreeEnc(heap, root)
        /\ Reach(heap, IF croot = None THEN {} ELSE {croot})
               \cap TreeNodes(heap, root) = {}

Rank(s, ei, ix) ==
    (Len(match_regex(func_regex, s).ends) - ei) * (Len(s) + 1) + (Len(s) - ix)

\* C5: tokenize never raises, the index into ends stays inside ends whenever
\* it is read, and tokenize returns: every iteration lowers Rank, which
\* stays >= 0.
C5_TokenizeTotal ==
    /\ [](pc # "fault")
    /\ []((pc = "tokenize" /\ index < Len(e) /\ InStarts(index)) => eindex < Len(ends))
    /\ [](pc = "tokenize" => Rank(e, eindex, index) >= 0)
    /\ [][(pc = "tokenize" /\ pc' = "tokenize") =>
              Rank(e, eindex', index') < Rank(e, eindex, index)]_vars

\* a function name inside a longer run of letters was skipped, a later one
\* was read with the skipped one's end, and tokenize returned
C5_Witness ==
    /\ pc = "postfix"
    /\ Len(starts) >= 2
    /\ \E i \in 1..Len(result) : result[i].is_func /\ result[i].sym = <<>>

\* a step of postfix that reads the operator b pops exactly the stacked
\* operators from the top down to the first "(" or the first a without
\* has_precedence(a, b), then pushes b
C6_PopRule ==
    (pc = "postfix" /\ pc' = "postfix" /\ result[pindex + 1].is_oper) =>
        LET b == result[pindex + 1].sym
            k == Len(q') - Len(q)
        IN  /\ k \in 0..Len(op)
            /\ op' = Append(SubSeq(op, 1, Len(op) - k), b)
            /\ \A i \in 1..k :
                   /\ q'[Len(q) + i] = op[Len(op) + 1 - i]
                   /\ op[Len(op) + 1 - i] # <<"(">>
                   /\ has_precedence(op[Len(op) + 1 - i], b)
            /\ k < Len(op) =>
                   \/ op[Len(op) - k] = <<"(">>
                   \/ ~has_precedence(op[Len(op) - k], b)

\* has_precedence(op, op) for each operator
C6_Table ==
    /\ ~has_precedence(<<"^">>, <<"^">>)
    /\ \A o \in {<<"*">>, <<"/">>, <<"+">>, <<"-">>} : has_precedence(o, o)

\* what postfix returns for x op y op z
C6_ThreeOperands ==
    (/\ pc = "add"
     /\ Len(e) = 5
     /\ is_digit(e[1]) /\ is_digit(e[3]) /\ is_digit(e[5])
     /\ e[2] \in RefOps /\ e[4] = e[2]) =>
        q = IF e[2] = "^"
            THEN << <<e[1]>>, <<e[3]>>, <<e[5]>>, <<"^">>, <<"^">> >>
            ELSE << <<e[1]>>, <<e[3]>>, <<e[2]>>, <<e[5]>>, <<e[2]>> >>

\* C6: an incoming operator b pops the stacked operator a exactly when
\* has_precedence(a, b) holds; has_precedence(op, op) is false for ^ and true
\* for * / + -; and postfix of x op y op z is x y op z op for a
\* left-associative op, x y z ^ ^ for ^.
C6_Associativity ==
    /\ [](C6_Table /\ C6_ThreeOperands)
    /\ [][C6_PopRule]_vars

\* postfix returned for 1^1^1
C6_Witness ==
    /\ pc = "add"
    /\ e = <<"1", "^", "1", "^", "1">>
    /\ q = << <<"1">>, <<"1">>, <<"1">>, <<"^">>, <<"^">> >>

\* C7: once postfix has returned, every function name is in its output as
\* many times as the tokenizer produced a Function token for it.
C7_FunctionsInOutput ==
    pc = "add" =>
        \A i \in 1..Len(result) :
            result[i].is_func =>
                Count(q, result[i].sym)
                    = Cardinality({j \in 1..Len(result) :
                                     result[j].is_func /\ result[j].sym = result[i].sym})

\* C8: a step of tokenize that emits a Function token at position index
\* emits the whole name of the match that starts at index and continues just
\* past that match; no step moves the position backward, and no Function
\* token is empty.
C8_FunctionTokenSpan ==
    [][(pc = "tokenize" /\ pc' = "tokenize") =>
          /\ index' > index
          /\ InStarts(index) =>
                \E k \in 1..Len(starts) :
                    /\ starts[k] = index
                    /\ result' = Append(result, token(Slice(e, starts[k], ends[k]), "is_func"))
                    /\ result'[Len(result')].sym # <<>>
                    /\ index' = ends[k]]_vars

\* C9: after any sequence of add calls that returned, node 1 (the first
\* added) is the root and the only node without a parent, every other node
\* is the left or the right child, not both, of the node its parent field
\* names, no node is a child of two nodes, and the cursor is a node.
C9_TreeShape ==
    (pc = "built" /\ ~copied /\ heap # <<>>) =>
        LET N == 1..Len(heap)
        IN  /\ root = 1
            /\ \A n \in N : heap[n].parent = None <=> n = root
            /\ \A n \in N \ {root} :
                   /\ heap[n].parent \in N
                   /\ (heap[heap[n].parent].left = n) # (heap[heap[n].parent].right = n)
            /\ \A n \in N :
                   Cardinality({m \in N : heap[m].left = n})
                       + Cardinality({m \in N : heap[m].right = n}) <= 1
            /\ TreeNodes(heap, root) = N
            /\ cur \in N

\* three or more add calls returned and the cursor moved off the root
C9_Witness ==
    pc = "built" /\ ~copied /\ Len(heap) >= 3 /\ cur = 2

\* C10: in every tree build returns, a node holding + - * / ^ has both
\* children, and a node holding a number literal or an identifier (a
\* special-number name is one) has none.
C10_NodeArity ==
    pc = "built" =>
        \A n \in TreeNodes(heap, root) :
            /\ is_symbol(heap[n].sym) =>
                   heap[n].left # None /\ heap[n].right # None
            /\ (IsNumberLiteral(heap[n].sym) \/ IsIdentifier(heap[n].sym)) =>
                   heap[n].left = None /\ heap[n].right = None

====
